---------------------------- MODULE Spec2Model ----------------------------
(***************************************************************************)
(* A model of the remote-package crate: from_url (src/src/lib.rs) sniffs   *)
(* the first 1024 bytes of a response body, rebuilds the whole body as a   *)
(* Cursor chained with the rest of the response, and hands it to the       *)
(* Debian or the RPM adapter (src/src/debian.rs, src/src/rpm.rs), whose    *)
(* accessors answer the RemotePackage trait.                               *)
(*                                                                         *)
(* The crates the code calls (reqwest, std::io, infer, debpkg, fez) are    *)
(* not part of the repository.  std::io and infer are modelled by what     *)
(* they do on bytes; the two package parsers are oracles: what they return *)
(* is a nondeterministic choice, tied to the stream only by `wellformed`.  *)
(***************************************************************************)
EXTENDS Integers, Sequences, FiniteSets, TLC

(***************************************************************************)
(* Bounds of the model.                                                    *)
(***************************************************************************)
\* Bodies are up to PeekWindow + MaxExtra bytes long.
MaxExtra == 3
\* A short read returns at most ShortRead bytes.
ShortRead == 16
\* read_to_end retries an Interrupted read; at most this many happen.
MaxInterrupts == 1
\* Version strings of the adapters' own specification are this long at most.
MaxVerLen == 3
\* The caller makes at most this many accessor calls on a package.
MaxCalls == 3

(***************************************************************************)
(* Program constants.                                                      *)
(***************************************************************************)
\* response.take(1024)
PeekWindow == 1024
\* .timeout(std::time::Duration::from_secs(10))
RpmTimeoutSecs == 10

Min(a, b) == IF a < b THEN a ELSE b

IsPrefix(s, t) == Len(s) <= Len(t) /\ SubSeq(t, 1, Len(s)) = s

\* Option<T>
None == [some |-> FALSE]
Some(v) == [some |-> TRUE, val |-> v]

(***************************************************************************)
(* Response bodies: a leading signature, then filler bytes.                *)
(***************************************************************************)
\* "!<arch>\ndebian-binary"
DebMagic == <<33, 60, 97, 114, 99, 104, 62, 10,
              100, 101, 98, 105, 97, 110, 45, 98, 105, 110, 97, 114, 121>>
\* the RPM lead magic
RpmMagic == <<237, 171, 238, 219>>
\* "PK\x03\x04"
ZipMagic == <<80, 75, 3, 4>>
\* "!<arch>\n" with no debian-binary member
ArMagic == SubSeq(DebMagic, 1, 8)

Heads == {DebMagic, RpmMagic, ZipMagic, ArMagic, <<>>}

Filler(i) == (i * 37 + 11) % 256

Body(head, len) == [i \in 1..len |-> IF i <= Len(head) THEN head[i] ELSE Filler(i)]

BodyLengths == {0, 4, 20, 21, 96, 97} \cup ((PeekWindow - 1)..(PeekWindow + MaxExtra))

Bodies == {Body(h, n) : h \in Heads, n \in BodyLengths}

(***************************************************************************)
(* infer: signature matching on the peeked bytes.                          *)
(***************************************************************************)
StartsWith(buf, magic) == Len(buf) >= Len(magic) /\ SubSeq(buf, 1, Len(magic)) = magic

\* infer::archive::is_deb
IsDeb(buf) == Len(buf) > 20 /\ StartsWith(buf, DebMagic)

\* infer::archive::is_rpm
IsRpm(buf) == Len(buf) > 96 /\ StartsWith(buf, RpmMagic)

\* infer::archive::is_zip, is_ar
IsZip(buf) == Len(buf) > 3 /\ StartsWith(buf, ZipMagic)
IsAr(buf) == Len(buf) > 6 /\ StartsWith(buf, SubSeq(ArMagic, 1, 7))

\* infer::get(&infer_buf).map(|t| t.extension()): the first matcher that accepts.
InferExt(buf) ==
    IF IsZip(buf) THEN Some("zip")
    ELSE IF IsDeb(buf) THEN Some("deb")
    ELSE IF IsAr(buf) THEN Some("ar")
    ELSE IF IsRpm(buf) THEN Some("rpm")
    ELSE None


(***************************************************************************)
(* Results and the crate's error type.                                     *)
(***************************************************************************)
\* Result<T, E>
Ok(v) == [ok |-> TRUE, val |-> v]
Err(e) == [ok |-> FALSE, err |-> e]

\* enum PkgError; a wrapped library error keeps its cause (#[from])
DebPkgError(cause) == [kind |-> "DebPkgError", from |-> cause]
RpmError(cause) == [kind |-> "RpmError", from |-> cause]
HTTPError(cause) == [kind |-> "HTTPError", from |-> cause]
InferError == [kind |-> "InferError"]
DebianControlFieldNotFound(field) == [kind |-> "DebianControlFieldNotFound", field |-> field]
UnknownPackageType(inferred) == [kind |-> "UnknownPackageType", inferred |-> inferred]

\* enum RemotePackageType
Deb == "Deb"
Rpm == "Rpm"

\* the cargo features a build can have (from_url itself needs "http")
Features == {"debian", "rpm"}

(***************************************************************************)
(* What the external parsers can return.                                   *)
(***************************************************************************)
\* A version is a sequence of characters.
VerAlphabet == {"1", ".", "-"}

RECURSIVE SeqsUpTo(_, _)
SeqsUpTo(S, n) ==
    IF n = 0 THEN {<<>>}
    ELSE LET shorter == SeqsUpTo(S, n - 1)
         IN  shorter \cup {Append(s, c) : s \in {t \in shorter : Len(t) = n - 1}, c \in S}

SampleVersions == { <<"1", ".", "2", ".", "3", "-", "4">>,
                    <<"1", ".", "2", "-", "3", "-", "4">>,
                    <<"1", ".", "2", ".", "3">>,
                    <<"1", "0", ".", "1">> }

Versions == SampleVersions \cup SeqsUpTo(VerAlphabet, MaxVerLen)

\* debpkg::Control: Package and Version always there, any other field optional
Control(name, version, arch) ==
    [Package |-> Some(name), Version |-> Some(version), Architecture |-> arch]

DebControls == {Control("debian-faq", v, Some("all")) : v \in Versions}
                   \cup {Control("debian-faq", v, None) : v \in SampleVersions}

FaqControls == {Control("debian-faq", <<"1", "0", ".", "1">>, a) : a \in {Some("all"), None}}

\* a header tag of fez::RPMPackageMetadata: present, absent, or of another type
Present(v) == [tag |-> "present", val |-> v]
Absent == [tag |-> "absent"]
BadType == [tag |-> "badtype"]

RpmHeaders == [name : {Present("kibana"), Absent},
               version : {Present("8.2.1"), Absent},
               release : {Present("1"), Absent, BadType},
               arch : {Present("x86_64"), Absent}]

KibanaHeaders == [name : {Present("kibana")},
                  version : {Present("8.2.1")},
                  release : {Present("1"), Absent},
                  arch : {Present("x86_64")}]

\* what a failed library call reports
DebCauses == {"DebPkg::parse", "DebPkg::control", "Control::extract", "Io"}
RpmCauses == {"RpmPkgReader::parse", "RpmPkgReader::metadata", "Io"}

(***************************************************************************)
(* debian.rs                                                               *)
(***************************************************************************)
\* debpkg::Control::name, version, get
ControlName(control) == control.Package.val
ControlVersion(control) == control.Version.val
ControlGet(control, field) ==
    IF field \in DOMAIN control THEN control[field] ELSE None

\* str::rsplit_once: the split at the last delimiter
RECURSIVE RFind(_, _, _)
RFind(s, d, i) ==
    IF i = 0 THEN 0
    ELSE IF s[i] = d THEN i
    ELSE RFind(s, d, i - 1)

RECURSIVE Find(_, _, _)
Find(s, d, i) ==
    IF i > Len(s) THEN 0
    ELSE IF s[i] = d THEN i
    ELSE Find(s, d, i + 1)

SplitAt(s, i) ==
    IF i = 0 THEN None
    ELSE Some([prefix |-> SubSeq(s, 1, i - 1), suffix |-> SubSeq(s, i + 1, Len(s))])

SplitOnce(s, d) == SplitAt(s, Find(s, d, 1))
RSplitOnce(s, d) == SplitAt(s, RFind(s, d, Len(s)))

\* DebianRemotePackage::new_from_read, with TryFrom<DebPkg<T>>
DebianNewFromReadInfer(outcome) ==
    IF outcome.ok THEN Ok([variant |-> Deb, control |-> outcome.val])
    ELSE Err(InferError)
DebianNewFromRead(outcome) ==
    IF outcome.ok THEN Ok([variant |-> Deb, control |-> outcome.val])
    ELSE Err(DebPkgError(outcome.err))

\* impl RemotePackage for DebianRemotePackage
DebianPackageType(pkg) == Deb
DebianPackageName(pkg) == Ok(ControlName(pkg.control))
DebianPackageVersion(pkg) == Ok(ControlVersion(pkg.control))

DebianPackageArchEmpty(pkg) ==
    LET arch == ControlGet(pkg.control, "Architecture")
    IN  IF arch.some THEN Ok(arch.val) ELSE Ok("")
DebianPackageArch(pkg) ==
    LET arch == ControlGet(pkg.control, "Architecture")
    IN  IF arch.some THEN Ok(arch.val)
        ELSE Err(DebianControlFieldNotFound("Architecture"))

DebianPackageIterationFirst(pkg) ==
    LET split == SplitOnce(ControlVersion(pkg.control), "-")
    IN  IF split.some THEN Some(split.val.suffix) ELSE None
DebianPackageIteration(pkg) ==
    LET split == RSplitOnce(ControlVersion(pkg.control), "-")
    IN  IF split.some THEN Some(split.val.suffix) ELSE None

(***************************************************************************)
(* rpm.rs                                                                  *)
(***************************************************************************)
\* fez: header.get_name, get_version, get_release, get_arch
HeaderGet(header, tag) ==
    IF header[tag].tag = "present" THEN Ok(header[tag].val)
    ELSE IF header[tag].tag = "absent" THEN Err("TagNotFound")
    ELSE Err("UnexpectedTagDataType")

\* RpmRemotePackage::new_from_read
RpmNewFromRead(outcome) ==
    IF outcome.ok THEN Ok([variant |-> Rpm, metadata |-> [header |-> outcome.val]])
    ELSE Err(RpmError(outcome.err))

\* the ? of the accessors: From<RPMError> for PkgError
Try(r) == IF r.ok THEN r ELSE Err(RpmError(r.err))

\* impl RemotePackage for RpmRemotePackage
RpmPackageType(pkg) == Rpm
RpmPackageName(pkg) == Try(HeaderGet(pkg.metadata.header, "name"))
RpmPackageVersion(pkg) == Try(HeaderGet(pkg.metadata.header, "version"))
RpmPackageArch(pkg) == Try(HeaderGet(pkg.metadata.header, "arch"))

\* Result::ok
ResultOk(r) == IF r.ok THEN Some(r.val) ELSE None

RpmPackageIterationTry(pkg) == Try(HeaderGet(pkg.metadata.header, "release"))
RpmPackageIteration(pkg) == ResultOk(HeaderGet(pkg.metadata.header, "release"))

(***************************************************************************)
(* trait RemotePackage: dispatch on the variant behind the Box<dyn>.       *)
(***************************************************************************)
PackageType(pkg) ==
    IF pkg.variant = Deb THEN DebianPackageType(pkg) ELSE RpmPackageType(pkg)
PackageName(pkg) ==
    IF pkg.variant = Deb THEN DebianPackageName(pkg) ELSE RpmPackageName(pkg)
PackageVersion(pkg) ==
    IF pkg.variant = Deb THEN DebianPackageVersion(pkg) ELSE RpmPackageVersion(pkg)
PackageArch(pkg) ==
    IF pkg.variant = Deb THEN DebianPackageArch(pkg) ELSE RpmPackageArch(pkg)
PackageIteration(pkg) ==
    IF pkg.variant = Deb THEN DebianPackageIteration(pkg) ELSE RpmPackageIteration(pkg)

(***************************************************************************)
(* The state of one call of a constructor and of the package it returns.    *)
(***************************************************************************)
VARIABLES
    entry,        \* the public constructor that was called
    timeout,      \* the timeout of the request, when one was set
    enabled,      \* the cargo features of the build
    body,         \* the bytes of the response body, the stream S
    wellformed,   \* whether the parser given the body finds it well-formed
    pc,           \* where the call is
    pos,          \* how many bytes have been read from the response
    limit,        \* what Take still allows to be read
    interrupts,   \* how many reads were interrupted and retried
    infer_buf,    \* the bytes read for infer
    ext,          \* infer's extension for infer_buf
    is_deb,       \* infer::archive::is_deb(&infer_buf)
    is_rpm,       \* infer::archive::is_rpm(&infer_buf)
    rsp,          \* the reader given to new_from_read
    delivered,    \* the bytes the adapter's parser has read from rsp
    eof,          \* whether a read of rsp has returned 0
    adapters,     \* the adapters whose new_from_read was called, in order
    parsed,       \* what the adapter's parser returned
    result,       \* what the call returned
    calls,        \* how many accessor calls the caller has made
    first,        \* per accessor, what its first call on the package returned
    last          \* per accessor, what its latest call returned

vars == <<entry, timeout, enabled, body, wellformed, pc, pos, limit, interrupts, infer_buf, ext,
          is_deb, is_rpm, rsp, delivered, eof, adapters, parsed, result, calls, first,
          last>>

stream == <<entry, enabled, body, wellformed, pos, limit, interrupts, infer_buf, ext,
            is_deb, is_rpm, rsp, delivered, eof, adapters>>

Accessors == {"package_type", "package_name", "package_version",
              "package_iteration", "package_arch"}

NotCalled == [called |-> FALSE]
Returned(v) == [called |-> TRUE, value |-> v]

Pending == [pending |-> TRUE]
NoRsp == [first |-> <<>>, pos |-> 0, done_first |-> FALSE]

\* the package format a body carries, by its leading signature
Format(b) == IF IsDeb(b) THEN Deb ELSE IF IsRpm(b) THEN Rpm ELSE "none"

\* from_url, DebianRemotePackage::new_from_url, RpmRemotePackage::new_from_url
Entries == {"from_url", "deb_new_from_url", "rpm_new_from_url"}

\* the feature that compiles an entry in, besides "http"
EntryFeatures(e) ==
    IF e = "deb_new_from_url" THEN {"debian"}
    ELSE IF e = "rpm_new_from_url" THEN {"rpm"}
    ELSE {}

\* the timeout the entry puts on its request
RequestTimeout(e) == IF e = "rpm_new_from_url" THEN Some(RpmTimeoutSecs) ELSE None

\* the response handed to new_from_read as it is
Raw == [first |-> <<>>, pos |-> 0, done_first |-> TRUE]

Init ==
    /\ entry \in Entries
    /\ timeout = None
    /\ enabled \in {fs \in SUBSET Features : EntryFeatures(entry) \subseteq fs}
    /\ body \in Bodies
    /\ wellformed \in (IF entry = "from_url" /\ Format(body) = "none"
                       THEN {FALSE} ELSE BOOLEAN)
    /\ pc = "send"
    /\ pos = 0
    /\ limit = 0
    /\ interrupts = 0
    /\ infer_buf = <<>>
    /\ ext = None
    /\ is_deb = FALSE
    /\ is_rpm = FALSE
    /\ rsp = NoRsp
    /\ delivered = <<>>
    /\ eof = FALSE
    /\ adapters = <<>>
    /\ parsed = Pending
    /\ result = Pending
    /\ calls = 0
    /\ first = [a \in Accessors |-> NotCalled]
    /\ last = [a \in Accessors |-> NotCalled]

(***************************************************************************)
(* from_url, lib.rs                                                        *)
(***************************************************************************)
\* the sizes a single read may ask for
Chunks == {ShortRead, PeekWindow}

\* the sizes a parser may ask for: it may also read into an empty buffer
ParserReads == Chunks \cup {0}

\* client.get(url).send()? succeeds; response.take(1024)
SendOk ==
    /\ pc = "send"
    /\ entry = "from_url"
    /\ pc' = "peek"
    /\ limit' = PeekWindow
    /\ UNCHANGED <<entry, timeout, enabled, body, wellformed, pos, interrupts, infer_buf, ext, is_deb,
                   is_rpm, rsp, delivered, eof, adapters, parsed, result, calls, first, last>>

\* client.get(url).send()? fails
SendFail ==
    /\ pc = "send"
    /\ pc' = "done"
    /\ timeout' = RequestTimeout(entry)
    /\ result' = Err(HTTPError("reqwest"))
    /\ UNCHANGED <<stream, parsed, calls, first, last>>

\* DebianRemotePackage::new_from_url: the request is sent and the response goes
\* to new_from_read as it is
DebNewFromUrl ==
    /\ pc = "send"
    /\ entry = "deb_new_from_url"
    /\ timeout' = RequestTimeout(entry)
    /\ rsp' = Raw
    /\ adapters' = Append(adapters, Deb)
    /\ pc' = "parse"
    /\ UNCHANGED <<entry, enabled, body, wellformed, pos, limit, interrupts, infer_buf,
                   ext, is_deb, is_rpm, delivered, eof, parsed, result, calls, first, last>>

\* RpmRemotePackage::new_from_url: the request is sent with its timeout and the
\* response goes to new_from_read as it is
RpmNewFromUrl ==
    /\ pc = "send"
    /\ entry = "rpm_new_from_url"
    /\ timeout' = RequestTimeout(entry)
    /\ rsp' = Raw
    /\ adapters' = Append(adapters, Rpm)
    /\ pc' = "parse"
    /\ UNCHANGED <<entry, enabled, body, wellformed, pos, limit, interrupts, infer_buf,
                   ext, is_deb, is_rpm, delivered, eof, parsed, result, calls, first, last>>

\* .map_err(|_| PkgError::InferError)
PeekErrorHttp == HTTPError("Io")
PeekError == InferError

\* read_to_end: one read of Take<Response> that returns bytes
PeekRead ==
    /\ pc = "peek"
    /\ limit > 0
    /\ pos < Len(body)
    /\ \E c \in Chunks :
         LET n == Min(Min(c, limit), Len(body) - pos)
         IN  /\ infer_buf' = infer_buf \o SubSeq(body, pos + 1, pos + n)
             /\ pos' = pos + n
             /\ limit' = limit - n
    /\ UNCHANGED <<entry, timeout, enabled, body, wellformed, pc, interrupts, ext, is_deb, is_rpm, rsp,
                   delivered, eof, adapters, parsed, result, calls, first, last>>

\* read_to_end: a read fails with ErrorKind::Interrupted and is retried
PeekInterrupted ==
    /\ pc = "peek"
    /\ limit > 0
    /\ interrupts < MaxInterrupts
    /\ interrupts' = interrupts + 1
    /\ UNCHANGED <<entry, timeout, enabled, body, wellformed, pc, pos, limit, infer_buf, ext, is_deb,
                   is_rpm, rsp, delivered, eof, adapters, parsed, result, calls, first, last>>

\* read_to_end: a read fails with any other error
PeekFail ==
    /\ pc = "peek"
    /\ limit > 0
    /\ pc' = "done"
    /\ result' = Err(PeekError)
    /\ UNCHANGED <<timeout, stream, parsed, calls, first, last>>

\* read_to_end: a read returns 0, at the end of the body or of the Take limit
PeekEnd ==
    /\ pc = "peek"
    /\ (limit = 0 \/ pos = Len(body))
    /\ pc' = "infer"
    /\ UNCHANGED <<timeout, stream, parsed, result, calls, first, last>>

\* Cursor::new(infer_buf).chain(reader.into_inner())
Rsp(buf) == [first |-> buf, pos |-> 0, done_first |-> FALSE]

\* infer::get, is_deb, is_rpm on infer_buf, then the chain
Infer ==
    /\ pc = "infer"
    /\ ext' = InferExt(infer_buf)
    /\ is_deb' = IsDeb(infer_buf)
    /\ is_rpm' = IsRpm(infer_buf)
    /\ rsp' = Rsp(infer_buf)
    /\ pc' = "dispatch"
    /\ UNCHANGED <<entry, timeout, enabled, body, wellformed, pos, limit, interrupts, infer_buf,
                   delivered, eof, adapters, parsed, result, calls, first, last>>

\* the two cfg-gated if blocks, in order
SelectIgnoringFeatures(features, deb, rpm) ==
    IF deb THEN Deb ELSE IF rpm THEN Rpm ELSE "none"
Select(features, deb, rpm) ==
    IF "debian" \in features /\ deb THEN Deb
    ELSE IF "rpm" \in features /\ rpm THEN Rpm
    ELSE "none"

\* ext.unwrap_or("unknown")
HintUnknown(e) == "unknown"
Hint(e) == IF e.some THEN e.val ELSE "unknown"

\* debian::DebianRemotePackage::new_from_read(rsp) is called
DispatchDeb ==
    /\ pc = "dispatch"
    /\ Select(enabled, is_deb, is_rpm) = Deb
    /\ adapters' = Append(adapters, Deb)
    /\ pc' = "parse"
    /\ UNCHANGED <<entry, timeout, enabled, body, wellformed, pos, limit, interrupts, infer_buf, ext,
                   is_deb, is_rpm, rsp, delivered, eof, parsed, result, calls, first, last>>

\* rpm::RpmRemotePackage::new_from_read(rsp) is called
DispatchRpm ==
    /\ pc = "dispatch"
    /\ Select(enabled, is_deb, is_rpm) = Rpm
    /\ adapters' = Append(adapters, Rpm)
    /\ pc' = "parse"
    /\ UNCHANGED <<entry, timeout, enabled, body, wellformed, pos, limit, interrupts, infer_buf, ext,
                   is_deb, is_rpm, rsp, delivered, eof, parsed, result, calls, first, last>>

\* Err(PkgError::UnknownPackageType(ext.unwrap_or("unknown").to_owned()))
DispatchUnknown ==
    /\ pc = "dispatch"
    /\ Select(enabled, is_deb, is_rpm) = "none"
    /\ result' = Err(UnknownPackageType(Hint(ext)))
    /\ pc' = "done"
    /\ UNCHANGED <<timeout, stream, parsed, calls, first, last>>

(***************************************************************************)
(* The adapter's parser reads rsp.                                         *)
(***************************************************************************)
\* Chain::read of up to n bytes: the cursor first; once it returns 0 to a read
\* that asked for bytes, the response
ChainReadSecondOnly(r, src, p, n) ==
    LET k2 == Min(n, Len(src) - p)
    IN  [bytes |-> SubSeq(src, p + 1, p + k2),
         rsp |-> [r EXCEPT !.done_first = TRUE],
         pos |-> p + k2]
ChainReadNoEmptyGuard(r, src, p, n) ==
    LET k1 == Min(n, Len(r.first) - r.pos)
        k2 == Min(n, Len(src) - p)
    IN  IF ~r.done_first /\ k1 > 0
        THEN [bytes |-> SubSeq(r.first, r.pos + 1, r.pos + k1),
              rsp |-> [r EXCEPT !.pos = @ + k1],
              pos |-> p]
        ELSE [bytes |-> SubSeq(src, p + 1, p + k2),
              rsp |-> [r EXCEPT !.done_first = TRUE],
              pos |-> p + k2]
ChainRead(r, src, p, n) ==
    LET k1 == Min(n, Len(r.first) - r.pos)
        k2 == Min(n, Len(src) - p)
    IN  IF ~r.done_first /\ (k1 > 0 \/ n = 0)
        THEN [bytes |-> SubSeq(r.first, r.pos + 1, r.pos + k1),
              rsp |-> [r EXCEPT !.pos = @ + k1],
              pos |-> p]
        ELSE [bytes |-> SubSeq(src, p + 1, p + k2),
              rsp |-> [r EXCEPT !.done_first = TRUE],
              pos |-> p + k2]

\* one read of rsp by the parser
AdapterRead ==
    /\ pc = "parse"
    /\ ~eof
    /\ \E c \in ParserReads :
         LET out == ChainRead(rsp, body, pos, c)
         IN  /\ delivered' = delivered \o out.bytes
             /\ rsp' = out.rsp
             /\ pos' = out.pos
             /\ eof' = (c > 0 /\ out.bytes = <<>>)
    /\ UNCHANGED <<entry, timeout, enabled, body, wellformed, pc, limit, interrupts, infer_buf, ext,
                   is_deb, is_rpm, adapters, parsed, result, calls, first, last>>

\* a read of the response behind the cursor fails: the parser gives up
AdapterReadFail ==
    /\ pc = "parse"
    /\ ~eof
    /\ (rsp.done_first \/ rsp.pos = Len(rsp.first))
    /\ parsed' = Err("Io")
    /\ pc' = "construct"
    /\ UNCHANGED <<timeout, stream, result, calls, first, last>>

\* what the parser of format f may return after reading `got` of the body `whole`:
\* it reads before it answers, and accepts the body it finds well-formed
ParserOutcomes(f, wf, got, whole, atEnd) ==
    IF got = <<>> /\ ~atEnd THEN {}
    ELSE IF wf /\ IsPrefix(got, whole)
    THEN IF f = Deb THEN {Ok(c) : c \in FaqControls}
         ELSE {Ok(h) : h \in KibanaHeaders}
    ELSE IF f = Deb THEN {Err(c) : c \in DebCauses \ {"Io"}}
         ELSE {Err(c) : c \in RpmCauses \ {"Io"}}

\* DebPkg::parse, control and Control::extract, or RpmPkgReader::parse and metadata, return
AdapterFinish ==
    /\ pc = "parse"
    /\ parsed' \in ParserOutcomes(adapters[Len(adapters)], wellformed, delivered, body, eof)
    /\ pc' = "construct"
    /\ UNCHANGED <<timeout, stream, result, calls, first, last>>

\* let pkg = ...::new_from_read(rsp)?; return Ok(Box::new(pkg))
NewFromRead(f, outcome) ==
    IF f = Deb THEN DebianNewFromRead(outcome) ELSE RpmNewFromRead(outcome)

Construct ==
    /\ pc = "construct"
    /\ result' = NewFromRead(adapters[Len(adapters)], parsed)
    /\ pc' = "done"
    /\ UNCHANGED <<timeout, stream, parsed, calls, first, last>>

(***************************************************************************)
(* The accessors of the returned package.                                  *)
(***************************************************************************)
\* the caller keeps what an accessor returned
Record(a, v) ==
    /\ calls < MaxCalls
    /\ calls' = calls + 1
    /\ last' = [last EXCEPT ![a] = Returned(v)]
    /\ first' = IF first[a].called THEN first ELSE [first EXCEPT ![a] = Returned(v)]

package_type ==
    /\ pc = "done"
    /\ result.ok
    /\ Record("package_type", PackageType(result.val))
    /\ UNCHANGED <<timeout, stream, pc, parsed, result>>

package_name ==
    /\ pc = "done"
    /\ result.ok
    /\ Record("package_name", PackageName(result.val))
    /\ UNCHANGED <<timeout, stream, pc, parsed, result>>

package_version ==
    /\ pc = "done"
    /\ result.ok
    /\ Record("package_version", PackageVersion(result.val))
    /\ UNCHANGED <<timeout, stream, pc, parsed, result>>

package_arch ==
    /\ pc = "done"
    /\ result.ok
    /\ Record("package_arch", PackageArch(result.val))
    /\ UNCHANGED <<timeout, stream, pc, parsed, result>>

\* an iteration that cuts the revision off the version it keeps
package_iteration_split_off ==
    /\ pc = "done"
    /\ result.ok
    /\ Record("package_iteration", PackageIteration(result.val))
    /\ LET pkg == result.val
           split == IF pkg.variant = Deb
                    THEN RSplitOnce(ControlVersion(pkg.control), "-")
                    ELSE None
       IN  result' = IF split.some
                     THEN Ok([pkg EXCEPT !.control.Version = Some(split.val.prefix)])
                     ELSE result
    /\ UNCHANGED <<timeout, stream, pc, parsed>>
package_iteration ==
    /\ pc = "done"
    /\ result.ok
    /\ Record("package_iteration", PackageIteration(result.val))
    /\ UNCHANGED <<timeout, stream, pc, parsed, result>>


(***************************************************************************)
(* Specifications.                                                         *)
(***************************************************************************)
\* one call of from_url or of an adapter's new_from_url
Next ==
    \/ SendOk
    \/ SendFail
    \/ DebNewFromUrl
    \/ RpmNewFromUrl
    \/ PeekRead
    \/ PeekInterrupted
    \/ PeekFail
    \/ PeekEnd
    \/ Infer
    \/ DispatchDeb
    \/ DispatchRpm
    \/ DispatchUnknown
    \/ AdapterRead
    \/ AdapterReadFail
    \/ AdapterFinish
    \/ Construct

Spec == Init /\ [][Next]_vars

\* an adapter's parser has returned, on a body it has read whole: the adapter is
\* built and then queried
InitPkg ==
    /\ entry = "from_url"
    /\ timeout = None
    /\ enabled = Features
    /\ \E f \in {Deb, Rpm} :
         /\ body = Body(IF f = Deb THEN DebMagic ELSE RpmMagic, 97)
         /\ adapters = <<f>>
         /\ is_deb = (f = Deb)
         /\ is_rpm = (f = Rpm)
         /\ ext = Some(IF f = Deb THEN "deb" ELSE "rpm")
         /\ parsed \in IF f = Deb
                       THEN {Ok(c) : c \in DebControls} \cup {Err(c) : c \in DebCauses}
                       ELSE {Ok(h) : h \in RpmHeaders} \cup {Err(c) : c \in RpmCauses}
    /\ wellformed = parsed.ok
    /\ pc = "construct"
    /\ pos = Len(body)
    /\ limit = PeekWindow - Len(body)
    /\ interrupts = 0
    /\ infer_buf = body
    /\ rsp = [first |-> body, pos |-> Len(body), done_first |-> TRUE]
    /\ delivered = body
    /\ eof = TRUE
    /\ result = Pending
    /\ calls = 0
    /\ first = [a \in Accessors |-> NotCalled]
    /\ last = [a \in Accessors |-> NotCalled]

NextPkg ==
    \/ Construct
    \/ package_type
    \/ package_name
    \/ package_version
    \/ package_arch
    \/ package_iteration

SpecPkg == InitPkg /\ [][NextPkg]_vars

(***************************************************************************)
(* Properties.                                                             *)
(***************************************************************************)
\* the first PeekWindow bytes of a body, or all of it when it is shorter
Window(b) == SubSeq(b, 1, Min(Len(b), PeekWindow))

FeatureOf(f) == IF f = Deb THEN "debian" ELSE "rpm"

Hints == {"deb", "rpm", "zip", "ar", "unknown"}

\* the call ended before any byte was classified
TransportFailure ==
    \/ result = Err(HTTPError("reqwest"))
    \/ result = Err(InferError)

\* C1: the stream handed to the adapter is the body: before anything is read from
\* it, the retained prefix followed by the rest of the response is the body; what
\* the adapter has read is always a prefix of the body, and is the whole body once
\* a read has returned 0.
C1_RoundTrip ==
    /\ pc \in {"dispatch", "parse"} =>
         delivered \o SubSeq(rsp.first, rsp.pos + 1, Len(rsp.first))
                   \o SubSeq(body, pos + 1, Len(body)) = body
    /\ adapters # <<>> => IsPrefix(delivered, body)
    /\ (adapters # <<>> /\ eof) => delivered = body

\* an adapter has read a body longer than the peek window to its end, in more
\* than one read of the cursor
C1_Witness ==
    /\ entry = "from_url"
    /\ adapters # <<>>
    /\ eof
    /\ Len(body) > PeekWindow
    /\ delivered = body
    /\ Len(rsp.first) = PeekWindow

\* C2: when the peeked bytes carry neither the Debian nor the RPM signature, the
\* call ends at once with UnknownPackageType, carrying infer's extension for the
\* bytes when it has one and "unknown" otherwise, and no adapter is called.
C2_UnknownSignature ==
    [][(pc = "dispatch" /\ ~IsDeb(Window(body)) /\ ~IsRpm(Window(body))) =>
         /\ pc' = "done"
         /\ adapters' = <<>>
         /\ parsed' = Pending
         /\ result' = Err(UnknownPackageType(
                IF InferExt(Window(body)).some THEN InferExt(Window(body)).val
                ELSE "unknown"))]_vars

\* a zip body was refused with the hint "zip"
C2_Witness ==
    /\ pc = "done"
    /\ IsZip(body)
    /\ result = Err(UnknownPackageType("zip"))
    /\ adapters = <<>>

\* C3: when the peeked bytes carry the signature of a format whose feature is not
\* enabled, the call ends at once with UnknownPackageType and no adapter is called.
C3_DisabledFormat ==
    [][(/\ pc = "dispatch"
        /\ Format(Window(body)) # "none"
        /\ FeatureOf(Format(Window(body))) \notin enabled) =>
         /\ pc' = "done"
         /\ adapters' = <<>>
         /\ parsed' = Pending
         /\ result' \in {Err(UnknownPackageType(h)) : h \in Hints}]_vars

\* a Debian body was refused by a build with the rpm feature only
C3_Witness ==
    /\ pc = "done"
    /\ Format(Window(body)) = Deb
    /\ enabled = {"rpm"}
    /\ result = Err(UnknownPackageType("deb"))
    /\ adapters = <<>>

\* C4: at most one adapter is called, and when its parser fails the call returns
\* that adapter's error kind wrapping the parser's cause.
C4_OneAdapter ==
    /\ Len(adapters) <= 1
    /\ (pc = "done" /\ parsed \in {Err(c) : c \in DebCauses \cup RpmCauses}) =>
         /\ Len(adapters) = 1
         /\ result = Err([kind |-> IF adapters[1] = Deb THEN "DebPkgError" ELSE "RpmError",
                          from |-> parsed.err])

\* the Debian adapter failed to find the control archive, and the call said so
C4_Witness ==
    /\ pc = "done"
    /\ entry = "from_url"
    /\ adapters = <<Deb>>
    /\ "rpm" \in enabled
    /\ parsed = Err("DebPkg::control")
    /\ result = Err(DebPkgError("DebPkg::control"))

\* C5: a failed read of the peek window ends the call with InferError, with nothing
\* classified and no adapter called; and no call that reached an adapter ends with
\* InferError.
C5_PeekFailure ==
    /\ [][(pc = "peek" /\ pc' = "done") =>
            /\ result' = Err([kind |-> "InferError"])
            /\ adapters' = <<>>
            /\ parsed' = Pending
            /\ ext' = None /\ ~is_deb' /\ ~is_rpm']_vars
    /\ []((pc = "done" /\ adapters # <<>>) => result # Err([kind |-> "InferError"]))

\* the read failed after part of the window had been read
C5_Witness ==
    /\ pc = "done"
    /\ result = Err(InferError)
    /\ pos > 0
    /\ pos < Len(body)
    /\ limit > 0

\* C6: a from_url call on a well-formed body that carries the signature of an
\* enabled format, when no read fails, returns a package whose package_type is
\* that format.
C6_Identify ==
    (/\ pc = "done"
     /\ entry = "from_url"
     /\ wellformed
     /\ Format(body) # "none"
     /\ FeatureOf(Format(body)) \in enabled
     /\ ~TransportFailure
     /\ parsed # Err("Io")) =>
        /\ result \in {Ok(p) : p \in {[variant |-> Deb, control |-> c] : c \in FaqControls}
                                 \cup {[variant |-> Rpm, metadata |-> [header |-> h]] :
                                         h \in KibanaHeaders}}
        /\ PackageType(result.val) = Format(body)

\* an RPM body longer than the peek window came back as an Rpm package
C6_Witness ==
    /\ pc = "done"
    /\ entry = "from_url"
    /\ wellformed
    /\ Format(body) = Rpm
    /\ Len(body) > PeekWindow
    /\ result \in {Ok([variant |-> Rpm, metadata |-> [header |-> h]]) : h \in KibanaHeaders}
    /\ PackageType(result.val) = Rpm

\* the iteration the caller last got
Iteration == last["package_iteration"].value

IsDebPkg == pc = "done" /\ adapters = <<Deb>> /\ parsed \in {Ok(c) : c \in DebControls}
IsRpmPkg == pc = "done" /\ adapters = <<Rpm>> /\ parsed \in {Ok(h) : h \in RpmHeaders}

\* C7: the iteration of a Debian package is what follows the last "-" of its
\* version, and nothing when the version has no "-".
C7_DebianIteration ==
    (IsDebPkg /\ last["package_iteration"].called) =>
        LET v == parsed.val.Version.val
            hyphens == {i \in 1..Len(v) : v[i] = "-"}
        IN  /\ hyphens = {} => Iteration = None
            /\ hyphens # {} =>
                 \E i \in hyphens :
                     /\ \A j \in hyphens : j <= i
                     /\ Iteration = Some(SubSeq(v, i + 1, Len(v)))
            /\ v = <<"1", ".", "2", ".", "3", "-", "4">> => Iteration = Some(<<"4">>)
            /\ v = <<"1", ".", "2", "-", "3", "-", "4">> => Iteration = Some(<<"4">>)
            /\ v = <<"1", ".", "2", ".", "3">> => Iteration = None
            /\ v = <<"1", "0", ".", "1">> => Iteration = None

\* version "1.2-3-4" gave iteration "4"
C7_Witness ==
    /\ IsDebPkg
    /\ last["package_iteration"].called
    /\ parsed.val.Version.val = <<"1", ".", "2", "-", "3", "-", "4">>
    /\ Iteration = Some(<<"4">>)

\* C8: package_iteration returns an Option for every package; for an RPM package
\* it is the release when the header has one, and nothing when the tag is absent
\* or its lookup fails.
C8_IterationNeverFails ==
    last["package_iteration"].called =>
        /\ DOMAIN Iteration \in {{"some"}, {"some", "val"}}
        /\ Iteration.some = ("val" \in DOMAIN Iteration)
        /\ IsRpmPkg =>
             LET release == parsed.val.release
             IN  Iteration = IF release = Present("1") THEN Some("1") ELSE None

\* a release tag of another type gave no iteration
C8_Witness ==
    /\ IsRpmPkg
    /\ last["package_iteration"].called
    /\ parsed.val.release = BadType
    /\ Iteration = None

\* C9: a Debian package is built whether or not its control data has an
\* Architecture field; package_arch returns the field when it is there and the
\* field-not-found error naming "Architecture" when it is not.
C9_DebianArch ==
    IsDebPkg =>
        /\ result = Ok([variant |-> Deb, control |-> parsed.val])
        /\ last["package_arch"].called =>
             last["package_arch"].value =
                 IF parsed.val.Architecture = None
                 THEN Err([kind |-> "DebianControlFieldNotFound", field |-> "Architecture"])
                 ELSE Ok(parsed.val.Architecture.val)

\* a package without the field was built, and package_arch reported the field
C9_Witness ==
    /\ IsDebPkg
    /\ result.ok
    /\ parsed.val.Architecture = None
    /\ last["package_arch"].called
    /\ last["package_arch"].value = Err(DebianControlFieldNotFound("Architecture"))

\* C10: no accessor call changes the package or reads from the response, and every
\* call of an accessor returns what its first call returned.
C10_AccessorsFrame ==
    /\ [][pc = "done" =>
            /\ result' = result
            /\ pos' = pos
            /\ rsp' = rsp
            /\ delivered' = delivered
            /\ \A a \in Accessors : first[a].called => (last'[a] = first[a])]_vars
    /\ [](\A a \in Accessors : last[a] = first[a])

\* three calls of package_iteration and package_version were made on a Debian
\* package whose version has a revision, so one of the two was called again
C10_Witness ==
    /\ pc = "done"
    /\ calls = 3
    /\ {a \in Accessors : last[a].called} = {"package_iteration", "package_version"}
    /\ \E v \in DebControls : result = Ok([variant |-> Deb, control |-> v])
    /\ RSplitOnce(result.val.control.Version.val, "-") # None

=============================================================================
